---------------------------- MODULE Spec2Model ----------------------------
(***************************************************************************)
(* dping: bounded-concurrency dispatch of probe tasks (internal/dping.go)  *)
(* streaming into a statistics store (PingStatsStore).                     *)
(*                                                                         *)
(* Durations are integers in one unit (read it as milliseconds; the code   *)
(* uses nanoseconds, the arithmetic is the same integer arithmetic).       *)
(* PacketLoss is an integer number of percent (33 stands for 33.3).        *)
(***************************************************************************)
EXTENDS FiniteSets, Integers, Sequences, TLC

VARIABLES
    statsStore,     \* the PingStatsStore: summaryData, recentStats, maxRecent
    clock,          \* time.Now(), a logical clock read by Add
    added,          \* history: the PingStatistics passed to Add, in call order
    received,       \* history: the PingStatistics HandleDPing has received
    view,           \* the list a summary operation returned to a direct caller
    mu,             \* the goroutine holding the store's mutex, "" when free
    callers,        \* per goroutine calling the store directly: its position
    mainpc,         \* position of the goroutine running DPing
    args,           \* DPing's arguments isp, detection, maxConcurrency
    ispVal,         \* the validated ISP selector
    regionVal,      \* the validated region selector
    todo,           \* target descriptors the dispatch loops have not reached
    tasks,          \* per address: the probe goroutine spawned for it
    sem,            \* number of elements in the channel sem
    wg,             \* counter of the WaitGroup wg
    wgHandleDPing,  \* counter of the WaitGroup wgHandleDPing
    ChStatistics,   \* buffered elements of the channel ChStatistics
    closes,         \* number of close(ChStatistics) executed
    aggpc,          \* position of the goroutine running HandleDPing
    processedCount, \* HandleDPing's processedCount
    summaries,      \* history: number of times the summary was computed
    output          \* the two lists handed to printSummaryList, and sort, des

storeVars == <<statsStore, clock, added, received, view, mu, callers>>

dpingVars == <<mainpc, args, ispVal, regionVal, todo, tasks, sem, wg,
               wgHandleDPing, ChStatistics, closes, aggpc, processedCount,
               summaries, output>>

vars == <<statsStore, clock, added, received, view, mu, callers, mainpc, args, ispVal, regionVal, todo,
          tasks, sem, wg, wgHandleDPing, ChStatistics, closes, aggpc,
          processedCount, summaries, output>>

(***************************************************************************)
(* Bounds of the model.                                                    *)
(***************************************************************************)
MaxAdds == 3        \* Add calls in one behaviour of the store specification
MaxRecent == 2      \* largest recent-history capacity a store is built with
MaxViewAdds == 3    \* Add calls before a summary operation is called directly
MaxCopyAdds == 2    \* Add calls around a summary call whose rows are kept
MaxC == 2           \* largest concurrency limit passed to DPing
ChCap == 2          \* capacity of ChStatistics (20 in the code, scaled down
                    \* with the number of targets so that the buffer fills)

(***************************************************************************)
(* Program constants.                                                      *)
(***************************************************************************)
Hour == 3600000     \* time.Hour, the initial MinRtt of a new record
FullLoss == 100     \* the PacketLoss value HandleDPing excludes
RecentCap == 25     \* NewPingStatsStore(25), the store DPing uses

(***************************************************************************)
(* Inputs: probe statistics as the Probe Client returns them.              *)
(***************************************************************************)
Stat(sent, recv, loss, dup, min, max, avg) ==
    [PacketsSent |-> sent, PacketsRecv |-> recv, PacketLoss |-> loss,
     PacketsRecvDuplicates |-> dup, MinRtt |-> min, MaxRtt |-> max,
     AvgRtt |-> avg]

StatFull == Stat(3, 3, 0, 0, 10, 30, 20)
StatLossy == Stat(3, 2, 33, 1, 8, 25, 15)
StatOdd == Stat(2, 1, 50, 0, 13, 13, 13)
StatDead == Stat(2, 0, 100, 0, 0, 0, 0)

Stats == {StatFull, StatLossy, StatOdd, StatDead}

\* the statistics the Probe Client returns in the runs of DPing
PingStats == {StatFull, StatLossy, StatDead}

\* PingStatistic: a statistics object tagged with destination, region, isp
PingStatistic(ip, region, isp, st) ==
    [DecIp |-> ip, Region |-> region, Isp |-> isp, Statistic |-> st]

StoreDests == {"1.1.1.1", "2.2.2.2"}
StoreTags == {<<"r1", "dx">>, <<"r2", "lt">>}

StoreSamples ==
    {PingStatistic(ip, tag[1], tag[2], st) :
        ip \in StoreDests, tag \in StoreTags, st \in Stats}

(***************************************************************************)
(* PingStatsStore                                                          *)
(***************************************************************************)
NewPingStatsStore(maxRecent) ==
    [summaryData |-> << >>, recentStats |-> << >>, maxRecent |-> maxRecent]

\* append to the recent records, dropping the oldest beyond maxRecent
AppendRecentKeepsOldest(recent, stat, maxRecent) ==
    LET r == Append(recent, stat)
    IN  IF Len(r) > maxRecent THEN recent ELSE r

AppendRecent(recent, stat, maxRecent) ==
    LET r == Append(recent, stat)
    IN  IF Len(r) > maxRecent THEN Tail(r) ELSE r

\* the record Add creates for a destination it has not seen
NewSummaryZeroMin(stat) ==
    [DestIP |-> stat.DecIp, Region |-> stat.Region, Isp |-> stat.Isp,
     TotalSent |-> 0, TotalRecv |-> 0,
     MinRtt |-> 0, MaxRtt |-> 0, AvgRtt |-> 0,
     MinRttAvg |-> 0, MaxRttAvg |-> 0, LastUpdated |-> 0,
     PacketLoss |-> stat.Statistic.PacketLoss,
     PacketsRecvDuplicates |-> stat.Statistic.PacketsRecvDuplicates]

NewSummary(stat) ==
    [DestIP |-> stat.DecIp, Region |-> stat.Region, Isp |-> stat.Isp,
     TotalSent |-> 0, TotalRecv |-> 0,
     MinRtt |-> Hour, MaxRtt |-> 0, AvgRtt |-> 0,
     MinRttAvg |-> 0, MaxRttAvg |-> 0, LastUpdated |-> 0,
     PacketLoss |-> stat.Statistic.PacketLoss,
     PacketsRecvDuplicates |-> stat.Statistic.PacketsRecvDuplicates]

MergeTotalsSwapped(sum, st) ==
    [sum EXCEPT !.TotalSent = @ + st.PacketsRecv,
                !.TotalRecv = @ + st.PacketsSent]

MergeTotals(sum, st) ==
    [sum EXCEPT !.TotalSent = @ + st.PacketsSent,
                !.TotalRecv = @ + st.PacketsRecv]

MergeMinRttAnyValue(cur, v) == IF v < cur THEN v ELSE cur

MergeMinRtt(cur, v) == IF v > 0 /\ v < cur THEN v ELSE cur

MergeMaxRtt(cur, v) == IF v > cur THEN v ELSE cur

\* (m * (total - w) + v * w) / total, total being TotalRecv after the sample
WeightedMean(m, total, v, w) == (m * (total - w) + v * w) \div total

MergeExtremeAvgPerSample(m, total, v, w) ==
    IF total > w THEN (m * (total - w) + v) \div (total - w + 1) ELSE v

MergeExtremeAvg(m, total, v, w) ==
    IF total > w THEN WeightedMean(m, total, v, w) ELSE v

MergeAvgRttUnweighted(m, total, v, w) ==
    IF total > 0 THEN (m + v) \div 2 ELSE m

MergeAvgRtt(m, total, v, w) ==
    IF total > 0 THEN WeightedMean(m, total, v, w) ELSE m

MergeSampleLatestLoss(sum, st, now) ==
    LET t == MergeTotals(sum, st)
        w == st.PacketsRecv
    IN  [t EXCEPT
            !.LastUpdated = now,
            !.PacketLoss = st.PacketLoss,
            !.PacketsRecvDuplicates = st.PacketsRecvDuplicates,
            !.MinRtt = MergeMinRtt(@, st.MinRtt),
            !.MinRttAvg = MergeExtremeAvg(@, t.TotalRecv, st.MinRtt, w),
            !.MaxRtt = MergeMaxRtt(@, st.MaxRtt),
            !.MaxRttAvg = MergeExtremeAvg(@, t.TotalRecv, st.MaxRtt, w),
            !.AvgRtt = MergeAvgRtt(@, t.TotalRecv, st.AvgRtt, w)]

\* the record for stat.DecIp after Add, sum being the record found or created
MergeSample(sum, st, now) ==
    LET t == MergeTotals(sum, st)
        w == st.PacketsRecv
    IN  [t EXCEPT
            !.LastUpdated = now,
            !.MinRtt = MergeMinRtt(@, st.MinRtt),
            !.MinRttAvg = MergeExtremeAvg(@, t.TotalRecv, st.MinRtt, w),
            !.MaxRtt = MergeMaxRtt(@, st.MaxRtt),
            !.MaxRttAvg = MergeExtremeAvg(@, t.TotalRecv, st.MaxRtt, w),
            !.AvgRtt = MergeAvgRtt(@, t.TotalRecv, st.AvgRtt, w)]

MapPutAlone(m, k, v) == [x \in {k} |-> v]

MapPut(m, k, v) == [x \in DOMAIN m \cup {k} |-> IF x = k THEN v ELSE m[x]]

AddRetagging(s, stat, now) ==
    LET key == stat.DecIp
        sum == IF key \in DOMAIN s.summaryData
               THEN [s.summaryData[key] EXCEPT !.Region = stat.Region,
                                               !.Isp = stat.Isp]
               ELSE NewSummary(stat)
    IN  [s EXCEPT
            !.recentStats = AppendRecent(@, stat, s.maxRecent),
            !.summaryData = MapPut(@, key, MergeSample(sum, stat.Statistic, now))]

Add(s, stat, now) ==
    LET key == stat.DecIp
        sum == IF key \in DOMAIN s.summaryData
               THEN s.summaryData[key] ELSE NewSummary(stat)
    IN  [s EXCEPT
            !.recentStats = AppendRecent(@, stat, s.maxRecent),
            !.summaryData = MapPut(@, key, MergeSample(sum, stat.Statistic, now))]

(***************************************************************************)
(* Summary views.  The map iteration order is unspecified: every order is  *)
(* a possible one.  sort.Slice runs an insertion sort on slices shorter    *)
(* than 12 elements, which the lists of this model are.                    *)
(***************************************************************************)
Perms(S) ==
    {f \in [1..Cardinality(S) -> S] : \A i, j \in DOMAIN f : f[i] = f[j] => i = j}

RECURSIVE Concat(_)
Concat(lists) == IF lists = << >> THEN << >> ELSE Head(lists) \o Concat(Tail(lists))

\* the less function of GetSummarySortedGroupedByIsp
LessGrouped(field, descending, a, b) ==
    LET less == CASE field = "loss" -> a.PacketLoss < b.PacketLoss
                  [] field = "rtt" -> a.AvgRtt < b.AvgRtt
                  [] field = "sent" -> a.TotalSent < b.TotalSent
                  [] field = "recv" -> a.TotalRecv < b.TotalRecv
                  [] OTHER -> a.PacketLoss < b.PacketLoss
    IN  IF descending THEN ~less ELSE less

\* the less function of GetLossOnlyGroupedByIspSorted
LessLossOnly(field, descending, a, b) ==
    LET less == CASE field = "rtt" -> a.AvgRtt < b.AvgRtt
                  [] field = "sent" -> a.TotalSent < b.TotalSent
                  [] field = "recv" -> a.TotalRecv < b.TotalRecv
                  [] OTHER -> a.PacketLoss < b.PacketLoss
    IN  IF descending THEN ~less ELSE less

LessSortedAscending(field, descending, a, b) ==
    CASE field = "minrtt" -> a.MinRtt < b.MinRtt
      [] field = "maxrtt" -> a.MaxRtt < b.MaxRtt
      [] field = "avgrtt" -> a.AvgRtt < b.AvgRtt
      [] OTHER -> a.PacketLoss < b.PacketLoss

\* the less function of GetSummarySorted
LessSorted(field, descending, a, b) ==
    LET less == CASE field = "minrtt" -> a.MinRtt < b.MinRtt
                  [] field = "maxrtt" -> a.MaxRtt < b.MaxRtt
                  [] field = "avgrtt" -> a.AvgRtt < b.AvgRtt
                  [] OTHER -> a.PacketLoss < b.PacketLoss
    IN  IF descending THEN ~less ELSE less

Less(op, field, descending, a, b) ==
    CASE op = "sorted" -> LessSorted(field, descending, a, b)
      [] op = "grouped" -> LessGrouped(field, descending, a, b)
      [] OTHER -> LessLossOnly(field, descending, a, b)

Swap(list, i, j) == [list EXCEPT ![i] = list[j], ![j] = list[i]]

\* inner loop of the insertion sort: move element j down while it is less
RECURSIVE SiftDown(_, _, _, _, _)
SiftDown(op, field, descending, list, j) ==
    IF j > 1 /\ Less(op, field, descending, list[j], list[j - 1])
    THEN SiftDown(op, field, descending, Swap(list, j, j - 1), j - 1)
    ELSE list

RECURSIVE InsertionSort(_, _, _, _, _)
InsertionSort(op, field, descending, list, i) ==
    IF i > Len(list) THEN list
    ELSE InsertionSort(op, field, descending,
                       SiftDown(op, field, descending, list, i), i + 1)

SortSlice(op, field, descending, list) ==
    InsertionSort(op, field, descending, list, 2)

\* the results GetSummarySorted can return
GetSummarySorted(s, field, descending) ==
    LET data == s.summaryData
    IN  {SortSlice("sorted", field, descending,
                   [i \in 1..Len(order) |-> data[order[i]]]) :
            order \in Perms(DOMAIN data)}

GetSummaryFlat(s, field, descending) ==
    LET data == s.summaryData
    IN  {SortSlice("grouped", field, descending,
                   [i \in 1..Len(order) |-> data[order[i]]]) :
            order \in Perms(DOMAIN data)}

\* the results GetSummarySortedGroupedByIsp can return
GetSummarySortedGroupedByIsp(s, field, descending) ==
    LET data == s.summaryData
        isps == {data[k].Isp : k \in DOMAIN data}
        Group(order, isp) ==
            LET keys == SelectSeq(order, LAMBDA k : data[k].Isp = isp)
            IN  [i \in 1..Len(keys) |-> data[keys[i]]]
    IN  {Concat([g \in 1..Len(ispOrder) |->
                    SortSlice("grouped", field, descending,
                              Group(order, ispOrder[g]))]) :
            order \in Perms(DOMAIN data), ispOrder \in Perms(isps)}

GetLossOnlyKeepsAll(sum, field, descending) ==
    SortSlice("lossonly", field, descending, sum)

GetLossOnlyGroupedByIspSorted(sum, field, descending) ==
    SortSlice("lossonly", field, descending,
              SelectSeq(sum, LAMBDA v : v.PacketLoss > 0))

(***************************************************************************)
(* The catalog (JsonData): ISP -> region -> addresses.  As in the code's   *)
(* catalog, no address is listed twice and the ISPs do not all have the    *)
(* same regions.  One region lists no address, the case processIPs logs.   *)
(***************************************************************************)
Nationwide == "nationwide"
IspNames == <<"dx", "lt", "yd">>

DnsBuffer ==
    [dx |-> [r1 |-> <<"10.0.0.1", "10.0.0.2">>],
     lt |-> [r1 |-> <<"10.0.0.3">>],
     yd |-> [r2 |-> << >>]]

CatalogAddrs == {"10.0.0.1", "10.0.0.2", "10.0.0.3"}

IspInputs == {"dx", "lt", "yd", "all", "bogus"}
RegionInputs == {Nationwide, "r1", "r2", "nowhere"}

validIsps == {"dx", "lt", "yd", "all"}

isRegionExist(isp, region) ==
    CASE isp = "dx" -> region \in DOMAIN DnsBuffer.dx
      [] isp = "lt" -> region \in DOMAIN DnsBuffer.lt
      [] isp = "yd" -> region \in DOMAIN DnsBuffer.yd
      [] isp = "all" -> \/ region \in DOMAIN DnsBuffer.dx
                        \/ region \in DOMAIN DnsBuffer.lt
                        \/ region \in DOMAIN DnsBuffer.yd
      [] OTHER -> FALSE

ValidIspUnchecked(isp) == isp

ValidIsp(isp) == IF isp \in validIsps THEN isp ELSE "all"

ValidRegion(isp, detection) ==
    IF detection # Nationwide /\ ~isRegionExist(isp, detection)
    THEN Nationwide ELSE detection

targetIspsAll(isp) == IspNames

targetIsps(isp) == IF isp = "all" THEN IspNames ELSE <<isp>>

getIPList(ispName, region) ==
    IF ispName \in DOMAIN DnsBuffer /\ region \in DOMAIN DnsBuffer[ispName]
    THEN DnsBuffer[ispName][region] ELSE << >>

\* the descriptors processIPs starts a goroutine for, in loop order
processIPs(ipList, region, ispName) ==
    [i \in 1..Len(ipList) |-> [ip |-> ipList[i], region |-> region, isp |-> ispName]]

\* the dispatch orders of DPing: the fixed order of targetIsps for one
\* region, any iteration order of the two maps for all regions
TargetOrders(isp, region) ==
    IF region # Nationwide
    THEN {Concat([i \in 1..Len(targetIsps(isp)) |->
                    processIPs(getIPList(targetIsps(isp)[i], region), region,
                               targetIsps(isp)[i])])}
    ELSE LET chosen == {n \in DOMAIN DnsBuffer : isp = "all" \/ n = isp}
             OfIsp(n, regions) ==
                Concat([r \in 1..Len(regions) |->
                          processIPs(DnsBuffer[n][regions[r]], regions[r], n)])
             RegionOrders ==
                [chosen -> UNION {Perms(DOMAIN DnsBuffer[n]) : n \in chosen}]
         IN  {Concat([i \in 1..Len(ispOrder) |->
                        OfIsp(ispOrder[i], regionOrder[ispOrder[i]])]) :
                ispOrder \in Perms(chosen),
                regionOrder \in {f \in RegionOrders :
                                    \A n \in chosen : f[n] \in Perms(DOMAIN DnsBuffer[n])}}

(***************************************************************************)
(* DPing                                                                   *)
(***************************************************************************)
NoStat == [DecIp |-> "", Region |-> "", Isp |-> "", Statistic |-> Stat(0, 0, 0, 0, 0, 0, 0)]

IdleTask == [pc |-> "idle", Region |-> "", Isp |-> "", outcome |-> "none",
             stat |-> NoStat, posted |-> 0]

NoView == [op |-> "none", field |-> "", des |-> FALSE, input |-> << >>,
           rows |-> << >>]

\* the goroutines that call the store directly: two call Add, one reads
AddCallers == {"g1", "g2"}

Reader == "r"

IdleCaller == [pc |-> "idle", stat |-> NoStat]

\* sync.Mutex zero value: unlocked; no direct caller has started
Unlocked ==
    /\ mu = ""
    /\ callers = [c \in AddCallers \cup {Reader} |-> IdleCaller]

NoOutput == [sort |-> "", des |-> FALSE, summary |-> << >>, lossOnly |-> << >>]

SortInputs == {"loss", "minrtt", "maxrtt", "avgrtt"}

DPingIdle ==
    /\ mainpc = "start"
    /\ args = [isp |-> "", detection |-> "", maxConcurrency |-> 0]
    /\ ispVal = ""
    /\ regionVal = ""
    /\ todo = << >>
    /\ tasks = [a \in CatalogAddrs |-> IdleTask]
    /\ sem = 0
    /\ wg = 0
    /\ wgHandleDPing = 0
    /\ ChStatistics = << >>
    /\ closes = 0
    /\ aggpc = "idle"
    /\ processedCount = 0
    /\ summaries = 0
    /\ output = NoOutput

Init ==
    /\ statsStore = NewPingStatsStore(RecentCap)
    /\ clock = 0
    /\ added = << >>
    /\ received = {}
    /\ view = NoView
    /\ Unlocked
    /\ DPingIdle

\* DPing is called: its arguments are drawn, sem is made (line 21)
Call ==
    /\ mainpc = "start"
    /\ \E isp \in IspInputs, detection \in RegionInputs, c \in 0..MaxC :
        args' = [isp |-> isp, detection |-> detection, maxConcurrency |-> c]
    /\ mainpc' = "validate"
    /\ UNCHANGED <<storeVars, ispVal, regionVal, todo, tasks, sem, wg,
                   wgHandleDPing, ChStatistics, closes, aggpc, processedCount,
                   summaries, output>>

\* DPing up to the dispatch loops: selector validation, make(ChStatistics),
\* wgHandleDPing.Add(1), go HandleDPing
Validate ==
    /\ mainpc = "validate"
    /\ ispVal' = ValidIsp(args.isp)
    /\ regionVal' = ValidRegion(ValidIsp(args.isp), args.detection)
    /\ todo' \in TargetOrders(ValidIsp(args.isp),
                              ValidRegion(ValidIsp(args.isp), args.detection))
    /\ wgHandleDPing' = wgHandleDPing + 1
    /\ aggpc' = "recv"
    /\ mainpc' = "dispatch"
    /\ UNCHANGED <<storeVars, args, tasks, sem, wg, ChStatistics, closes,
                   processedCount, summaries, output>>

\* one iteration of the loop of processIPs: wg.Add(1); go func(ip)
Spawn ==
    /\ mainpc = "dispatch"
    /\ todo # << >>
    /\ LET d == Head(todo)
       IN  tasks' = [tasks EXCEPT ![d.ip] =
                        [IdleTask EXCEPT !.pc = "blocked", !.Region = d.region,
                                         !.Isp = d.isp]]
    /\ wg' = wg + 1
    /\ todo' = Tail(todo)
    /\ UNCHANGED <<storeVars, mainpc, args, ispVal, regionVal, sem,
                   wgHandleDPing, ChStatistics, closes, aggpc, processedCount,
                   summaries, output>>

AcquireUnbounded(a) ==
    /\ tasks[a].pc = "blocked"
    /\ sem' = sem + 1
    /\ tasks' = [tasks EXCEPT ![a].pc = "ping"]
    /\ UNCHANGED <<storeVars, mainpc, args, ispVal, regionVal, todo, wg,
                   wgHandleDPing, ChStatistics, closes, aggpc, processedCount,
                   summaries, output>>

\* sem <- struct{}{}
Acquire(a) ==
    /\ tasks[a].pc = "blocked"
    /\ sem < args.maxConcurrency
    /\ sem' = sem + 1
    /\ tasks' = [tasks EXCEPT ![a].pc = "ping"]
    /\ UNCHANGED <<storeVars, mainpc, args, ispVal, regionVal, todo, wg,
                   wgHandleDPing, ChStatistics, closes, aggpc, processedCount,
                   summaries, output>>

\* Ping: NewPinger and pinger.Run succeed, pinger.Statistics() is read
PingOk(a) ==
    /\ tasks[a].pc = "ping"
    /\ \E st \in PingStats :
        tasks' = [tasks EXCEPT ![a].pc = "post", ![a].outcome = "ok",
                    ![a].stat = PingStatistic(a, tasks[a].Region, tasks[a].Isp, st)]
    /\ UNCHANGED <<storeVars, mainpc, args, ispVal, regionVal, todo, sem, wg,
                   wgHandleDPing, ChStatistics, closes, aggpc, processedCount,
                   summaries, output>>

PingErrorFallsThrough(a) ==
    /\ tasks[a].pc = "ping"
    /\ tasks' = [tasks EXCEPT ![a].pc = "post", ![a].outcome = "err",
                    ![a].stat = PingStatistic(a, tasks[a].Region, tasks[a].Isp,
                                              StatDead)]
    /\ UNCHANGED <<storeVars, mainpc, args, ispVal, regionVal, todo, sem, wg,
                   wgHandleDPing, ChStatistics, closes, aggpc, processedCount,
                   summaries, output>>

\* Ping: NewPinger or pinger.Run returns an error; Ping returns
PingError(a) ==
    /\ tasks[a].pc = "ping"
    /\ tasks' = [tasks EXCEPT ![a].pc = "release", ![a].outcome = "err"]
    /\ UNCHANGED <<storeVars, mainpc, args, ispVal, regionVal, todo, sem, wg,
                   wgHandleDPing, ChStatistics, closes, aggpc, processedCount,
                   summaries, output>>

PingFaultUnwinds(a) ==
    /\ tasks[a].pc = "ping"
    /\ tasks' = [tasks EXCEPT ![a].pc = "done", ![a].outcome = "fault"]
    /\ UNCHANGED <<storeVars, mainpc, args, ispVal, regionVal, todo, sem, wg,
                   wgHandleDPing, ChStatistics, closes, aggpc, processedCount,
                   summaries, output>>

\* Ping: a panic before the send, recovered by Ping's deferred function
PingFault(a) ==
    /\ tasks[a].pc = "ping"
    /\ tasks' = [tasks EXCEPT ![a].pc = "release", ![a].outcome = "fault"]
    /\ UNCHANGED <<storeVars, mainpc, args, ispVal, regionVal, todo, sem, wg,
                   wgHandleDPing, ChStatistics, closes, aggpc, processedCount,
                   summaries, output>>

PostUnbuffered(a) ==
    /\ tasks[a].pc = "post"
    /\ closes = 0
    /\ Len(ChStatistics) = 0
    /\ ChStatistics' = Append(ChStatistics, tasks[a].stat)
    /\ tasks' = [tasks EXCEPT ![a].pc = "release", ![a].stat = NoStat,
                              ![a].posted = @ + 1]
    /\ UNCHANGED <<storeVars, mainpc, args, ispVal, regionVal, todo, sem, wg,
                   wgHandleDPing, closes, aggpc, processedCount, summaries,
                   output>>

\* ChStatistics <- &PingStatistic{...}: the send completes when the channel
\* is open and its buffer has room
Post(a) ==
    /\ tasks[a].pc = "post"
    /\ closes = 0
    /\ Len(ChStatistics) < ChCap
    /\ ChStatistics' = Append(ChStatistics, tasks[a].stat)
    /\ tasks' = [tasks EXCEPT ![a].pc = "release", ![a].stat = NoStat,
                              ![a].posted = @ + 1]
    /\ UNCHANGED <<storeVars, mainpc, args, ispVal, regionVal, todo, sem, wg,
                   wgHandleDPing, closes, aggpc, processedCount, summaries,
                   output>>

ReleaseOnSuccess(a) ==
    /\ tasks[a].pc = "release"
    /\ sem > 0
    /\ sem' = IF tasks[a].outcome = "ok" THEN sem - 1 ELSE sem
    /\ tasks' = [tasks EXCEPT ![a].pc = "wgdone"]
    /\ UNCHANGED <<storeVars, mainpc, args, ispVal, regionVal, todo, wg,
                   wgHandleDPing, ChStatistics, closes, aggpc, processedCount,
                   summaries, output>>

\* deferred: <-sem
Release(a) ==
    /\ tasks[a].pc = "release"
    /\ sem > 0
    /\ sem' = sem - 1
    /\ tasks' = [tasks EXCEPT ![a].pc = "wgdone"]
    /\ UNCHANGED <<storeVars, mainpc, args, ispVal, regionVal, todo, wg,
                   wgHandleDPing, ChStatistics, closes, aggpc, processedCount,
                   summaries, output>>

\* deferred: wg.Done()
Done(a) ==
    /\ tasks[a].pc = "wgdone"
    /\ wg' = wg - 1
    /\ tasks' = [tasks EXCEPT ![a].pc = "done"]
    /\ UNCHANGED <<storeVars, mainpc, args, ispVal, regionVal, todo, sem,
                   wgHandleDPing, ChStatistics, closes, aggpc, processedCount,
                   summaries, output>>

WgWaitSkipped ==
    /\ mainpc = "dispatch"
    /\ todo = << >>
    /\ mainpc' = "close"
    /\ UNCHANGED <<storeVars, args, ispVal, regionVal, todo, tasks, sem, wg,
                   wgHandleDPing, ChStatistics, closes, aggpc, processedCount,
                   summaries, output>>

\* wg.Wait() after the dispatch loops
WgWait ==
    /\ mainpc = "dispatch"
    /\ todo = << >>
    /\ wg = 0
    /\ mainpc' = "close"
    /\ UNCHANGED <<storeVars, args, ispVal, regionVal, todo, tasks, sem, wg,
                   wgHandleDPing, ChStatistics, closes, aggpc, processedCount,
                   summaries, output>>

\* close(ChStatistics)
Close ==
    /\ mainpc = "close"
    /\ closes' = closes + 1
    /\ mainpc' = "join"
    /\ UNCHANGED <<storeVars, args, ispVal, regionVal, todo, tasks, sem, wg,
                   wgHandleDPing, ChStatistics, aggpc, processedCount,
                   summaries, output>>

JoinSkipped ==
    /\ mainpc = "join"
    /\ mainpc' = "returned"
    /\ UNCHANGED <<storeVars, args, ispVal, regionVal, todo, tasks, sem, wg,
                   wgHandleDPing, ChStatistics, closes, aggpc, processedCount,
                   summaries, output>>

\* wgHandleDPing.Wait(); DPing returns
Join ==
    /\ mainpc = "join"
    /\ wgHandleDPing = 0
    /\ mainpc' = "returned"
    /\ UNCHANGED <<storeVars, args, ispVal, regionVal, todo, tasks, sem, wg,
                   wgHandleDPing, ChStatistics, closes, aggpc, processedCount,
                   summaries, output>>

ReceiveCountsAdded ==
    /\ aggpc = "recv"
    /\ ChStatistics # << >>
    /\ LET stats == Head(ChStatistics)
       IN  /\ IF stats.Statistic.PacketLoss # FullLoss
              THEN /\ statsStore' = Add(statsStore, stats, clock + 1)
                   /\ clock' = clock + 1
                   /\ added' = Append(added, stats)
                   /\ processedCount' = processedCount + 1
              ELSE UNCHANGED <<statsStore, clock, added, processedCount>>
           /\ received' = received \cup {stats}
    /\ UNCHANGED <<view, mu, callers>>
    /\ ChStatistics' = Tail(ChStatistics)
    /\ UNCHANGED <<mainpc, args, ispVal, regionVal, todo, tasks, sem, wg,
                   wgHandleDPing, closes, aggpc, summaries, output>>

ReceiveAddsAll ==
    /\ aggpc = "recv"
    /\ ChStatistics # << >>
    /\ LET stats == Head(ChStatistics)
       IN  /\ statsStore' = Add(statsStore, stats, clock + 1)
           /\ clock' = clock + 1
           /\ added' = Append(added, stats)
           /\ received' = received \cup {stats}
    /\ UNCHANGED <<view, mu, callers>>
    /\ ChStatistics' = Tail(ChStatistics)
    /\ processedCount' = processedCount + 1
    /\ UNCHANGED <<mainpc, args, ispVal, regionVal, todo, tasks, sem, wg,
                   wgHandleDPing, closes, aggpc, summaries, output>>

\* HandleDPing: one iteration of the loop that receives a result
Receive ==
    /\ aggpc = "recv"
    /\ ChStatistics # << >>
    /\ LET stats == Head(ChStatistics)
       IN  /\ IF stats.Statistic.PacketLoss # FullLoss
              THEN /\ statsStore' = Add(statsStore, stats, clock + 1)
                   /\ clock' = clock + 1
                   /\ added' = Append(added, stats)
              ELSE UNCHANGED <<statsStore, clock, added>>
           /\ received' = received \cup {stats}
    /\ UNCHANGED <<view, mu, callers>>
    /\ ChStatistics' = Tail(ChStatistics)
    /\ processedCount' = processedCount + 1
    /\ UNCHANGED <<mainpc, args, ispVal, regionVal, todo, tasks, sem, wg,
                   wgHandleDPing, closes, aggpc, summaries, output>>

\* HandleDPing: the receive reports the channel closed; both summaries are
\* computed and printed.  sort and des are arguments of DPing that only this
\* step reads: they are drawn here.
Summarize ==
    /\ aggpc = "recv"
    /\ ChStatistics = << >>
    /\ closes > 0
    /\ \E sort \in SortInputs, des \in BOOLEAN :
        \E SummaryStatistic \in GetSummarySortedGroupedByIsp(statsStore, sort, des) :
            output' = [sort |-> sort, des |-> des,
                       summary |-> SummaryStatistic,
                       lossOnly |-> GetLossOnlyGroupedByIspSorted(
                                        SummaryStatistic, sort, des)]
    /\ summaries' = summaries + 1
    /\ aggpc' = "exit"
    /\ UNCHANGED <<storeVars, mainpc, args, ispVal, regionVal, todo, tasks,
                   sem, wg, wgHandleDPing, ChStatistics, closes,
                   processedCount>>

\* HandleDPing: deferred wg.Done()
HandleDone ==
    /\ aggpc = "exit"
    /\ wgHandleDPing' = wgHandleDPing - 1
    /\ aggpc' = "done"
    /\ UNCHANGED <<storeVars, mainpc, args, ispVal, regionVal, todo, tasks,
                   sem, wg, ChStatistics, closes, processedCount, summaries,
                   output>>

TaskStep(a) ==
    \/ Acquire(a)
    \/ PingOk(a)
    \/ PingError(a)
    \/ PingFault(a)
    \/ Post(a)
    \/ Release(a)
    \/ Done(a)

MainStep == Call \/ Validate \/ Spawn \/ WgWait \/ Close \/ Join

HandleStep == Receive \/ Summarize \/ HandleDone

Next ==
    \/ MainStep
    \/ HandleStep
    \/ \E a \in CatalogAddrs : TaskStep(a)

Spec == Init /\ [][Next]_vars

\* the Go scheduler runs every goroutine that can take a step
FairSpec ==
    /\ Spec
    /\ WF_vars(MainStep)
    /\ WF_vars(HandleStep)
    /\ \A a \in CatalogAddrs : WF_vars(TaskStep(a))


(***************************************************************************)
(* Properties of DPing                                                     *)
(***************************************************************************)
Spawned == {a \in CatalogAddrs : tasks[a].pc # "idle"}

\* tasks that have acquired a slot of sem and not yet released it
InFlight == {a \in CatalogAddrs : tasks[a].pc \in {"ping", "post", "release"}}

Finished(a) == tasks[a].pc = "done"

AllFinished == todo = << >> /\ \A a \in Spawned : Finished(a)

RECURSIVE SumPosted(_)
SumPosted(S) ==
    IF S = {} THEN 0
    ELSE LET a == CHOOSE x \in S : TRUE
         IN  tasks[a].posted + SumPosted(S \ {a})

Succeeded == {a \in CatalogAddrs : tasks[a].outcome = "ok"}

Failed == {a \in CatalogAddrs : tasks[a].outcome \in {"err", "fault"}}

\* C1: with a concurrency limit C >= 1, the number of probe tasks that hold
\* an admission slot (acquired, not yet released) is at most C in every
\* reachable state.
C1_InFlightAtMostC ==
    args.maxConcurrency >= 1 =>
        /\ Cardinality(InFlight) <= args.maxConcurrency
        /\ sem = Cardinality(InFlight)

\* the limit is reached while another task waits for a slot
C1_Witness ==
    /\ args.maxConcurrency = 2
    /\ Cardinality(InFlight) = 2
    /\ \E a \in CatalogAddrs : tasks[a].pc = "blocked"

\* C2: the result stream is closed at most once, is closed once when DPing
\* goes on to wait for the aggregator, and is closed only when every probe
\* task has been spawned and has finished; so no task is still to post a
\* result once the stream is closed.
C2_ClosedOnceAfterAllTasks ==
    /\ closes <= 1
    /\ mainpc \in {"join", "returned"} => closes = 1
    /\ closes > 0 => AllFinished /\ wg = 0

\* the stream is closed after a run with a success, an error and a fault
C2_Witness ==
    /\ closes = 1
    /\ \E a \in CatalogAddrs : tasks[a].posted = 1
    /\ \E a \in CatalogAddrs : tasks[a].outcome = "err"
    /\ \E a \in CatalogAddrs : tasks[a].outcome = "fault"

\* C3: under fair scheduling, with every Probe Client call returning, every
\* run of DPing terminates for any concurrency limit: DPing returns.
C3_EveryRunTerminates == <>(mainpc = "returned")

\* C3 restricted to concurrency limits C >= 1
C3_TerminatesWithPositiveLimit ==
    (mainpc = "dispatch" /\ args.maxConcurrency >= 1) ~>
        (mainpc = "returned" /\ AllFinished /\ closes = 1 /\ summaries = 1)

\* C4: a task whose Probe Client call fails or panics posts no result, and
\* after such a failure every spawned task still finishes, the stream is
\* closed, the summary is produced and DPing returns.
C4_FailureContained ==
    /\ [](\A a \in Failed : tasks[a].posted = 0)
    /\ (Failed # {}) ~>
            (/\ mainpc = "returned"
             /\ AllFinished
             /\ wg = 0
             /\ closes = 1
             /\ summaries = 1)

\* DPing has returned from a run in which one task panicked, one got an
\* error and one succeeded
C4_Witness ==
    /\ mainpc = "returned"
    /\ \E a \in CatalogAddrs : tasks[a].outcome = "fault" /\ Finished(a)
    /\ \E a \in CatalogAddrs : tasks[a].outcome = "err" /\ Finished(a)
    /\ Succeeded # {}
    /\ summaries = 1

\* C5: a task posts exactly one result when the Probe Client succeeds and
\* none otherwise; the aggregator never receives more results than were
\* posted nor than there are targets, and when DPing returns it has received
\* as many results as tasks succeeded.
C5_OneResultPerSuccess ==
    /\ \A a \in CatalogAddrs :
        /\ tasks[a].posted <= 1
        /\ tasks[a].outcome # "ok" => tasks[a].posted = 0
        /\ (tasks[a].outcome = "ok" /\ tasks[a].pc # "post") => tasks[a].posted = 1
    /\ processedCount + Len(ChStatistics) = SumPosted(CatalogAddrs)
    /\ processedCount <= Cardinality(Spawned) + Len(todo)
    /\ mainpc = "returned" => processedCount = Cardinality(Succeeded)

\* DPing has returned having received two results, a third task having failed
C5_Witness ==
    /\ mainpc = "returned"
    /\ processedCount = 2
    /\ Cardinality(Spawned) = 3
    /\ Cardinality(Failed) = 1

\* destinations of the received results with loss below 100%
Contributed == {r.DecIp : r \in {x \in received : x.Statistic.PacketLoss < FullLoss}}

Rows(list) == {list[i].DestIP : i \in 1..Len(list)}

\* C6: the summary is computed at most once, only when the stream is closed
\* and every posted result has been received, and has been computed when
\* DPing returns; its grouped view has one row for exactly the destinations
\* that contributed a result with loss below 100% (none when no probe
\* succeeded) and its loss-only view is taken from those rows.
C6_SummaryOnceAtClosure ==
    /\ summaries <= 1
    /\ mainpc = "returned" => summaries = 1
    /\ summaries = 0 => output = NoOutput
    /\ summaries = 1 =>
        /\ closes = 1
        /\ ChStatistics = << >>
        /\ processedCount = SumPosted(CatalogAddrs)
        /\ Rows(output.summary) = Contributed
        /\ Len(output.summary) = Cardinality(Contributed)
        /\ Rows(output.lossOnly) \subseteq Rows(output.summary)
        /\ Succeeded = {} => output.summary = << >>

\* a summary of two rows after three results, one of them a 100% loss
C6_Witness ==
    /\ mainpc = "returned"
    /\ summaries = 1
    /\ processedCount = 3
    /\ Len(output.summary) = 2

\* no probe succeeded and the summary is empty
C6_WitnessEmpty ==
    /\ mainpc = "returned"
    /\ Cardinality(Spawned) = 3
    /\ Succeeded = {}
    /\ output.summary = << >>

\* C7: the step in which the aggregator receives a result with
\* PacketLoss = 100 leaves the store as it is: summaryData and recentStats
\* are unchanged.
C7_FullLossLeavesStore ==
    [][(/\ ChStatistics # << >>
        /\ Head(ChStatistics).Statistic.PacketLoss = FullLoss
        /\ processedCount' = processedCount + 1)
       => (statsStore' = statsStore /\ clock' = clock)]_vars

\* a 100% loss result was received after the store had a record, and its
\* destination has no record
C7_Witness ==
    /\ statsStore.summaryData # << >>
    /\ statsStore.recentStats # << >>
    /\ \E r \in received :
        /\ r.Statistic.PacketLoss = FullLoss
        /\ r.DecIp \notin DOMAIN statsStore.summaryData
    /\ processedCount = Len(added) + 1

(***************************************************************************)
(* The store on its own: any sequence of Add calls on a new store, before  *)
(* DPing is called.                                                        *)
(***************************************************************************)
StoreInit ==
    /\ \E n \in 1..MaxRecent : statsStore = NewPingStatsStore(n)
    /\ clock = 0
    /\ added = << >>
    /\ received = {}
    /\ view = NoView
    /\ Unlocked
    /\ DPingIdle

StoreAdd ==
    /\ Len(added) < MaxAdds
    /\ \E stat \in StoreSamples :
        /\ statsStore' = Add(statsStore, stat, clock + 1)
        /\ added' = Append(added, stat)
    /\ clock' = clock + 1
    /\ UNCHANGED <<received, view, mu, callers, dpingVars>>

StoreNext == StoreAdd

StoreSpec == StoreInit /\ [][StoreNext]_vars

(***************************************************************************)
(* The summary operations called directly on a store filled by Add calls.  *)
(***************************************************************************)
ViewFields == {"loss", "minrtt", "maxrtt", "avgrtt", "rtt", "sent", "recv"}

ViewInit ==
    /\ statsStore = NewPingStatsStore(RecentCap)
    /\ clock = 0
    /\ added = << >>
    /\ received = {}
    /\ view = NoView
    /\ Unlocked
    /\ DPingIdle

\* samples of three destinations, two of them of one ISP
ViewSamples ==
    {PingStatistic(d[1], d[2], d[3], st) :
        d \in {<<"1.1.1.1", "r1", "dx">>, <<"2.2.2.2", "r2", "lt">>,
               <<"3.3.3.3", "r2", "dx">>},
        st \in {StatFull, StatLossy, StatOdd}}

ViewAdd ==
    /\ view = NoView
    /\ Len(added) < MaxViewAdds
    /\ \E stat \in ViewSamples :
        /\ statsStore' = Add(statsStore, stat, clock + 1)
        /\ added' = Append(added, stat)
    /\ clock' = clock + 1
    /\ UNCHANGED <<received, view, mu, callers, dpingVars>>

\* GetSummarySorted(field, descending)
ViewSorted ==
    /\ view = NoView
    /\ \E field \in ViewFields, des \in BOOLEAN :
        \E rows \in GetSummarySorted(statsStore, field, des) :
            view' = [op |-> "sorted", field |-> field, des |-> des,
                     input |-> << >>, rows |-> rows]
    /\ UNCHANGED <<statsStore, clock, added, received, mu, callers, dpingVars>>

\* GetSummarySortedGroupedByIsp(field, descending)
ViewGrouped ==
    /\ view = NoView
    /\ \E field \in ViewFields, des \in BOOLEAN :
        \E rows \in GetSummarySortedGroupedByIsp(statsStore, field, des) :
            view' = [op |-> "grouped", field |-> field, des |-> des,
                     input |-> << >>, rows |-> rows]
    /\ UNCHANGED <<statsStore, clock, added, received, mu, callers, dpingVars>>

\* GetLossOnlyGroupedByIspSorted(sum, field, descending), sum being a result
\* of GetSummarySortedGroupedByIsp(field, descending) as in HandleDPing
ViewLossOnly ==
    /\ view = NoView
    /\ \E field \in ViewFields, des \in BOOLEAN :
        \E sum \in GetSummarySortedGroupedByIsp(statsStore, field, des) :
            view' = [op |-> "lossOnly", field |-> field, des |-> des,
                     input |-> sum,
                     rows |-> GetLossOnlyGroupedByIspSorted(sum, field, des)]
    /\ UNCHANGED <<statsStore, clock, added, received, mu, callers, dpingVars>>

ViewNext == ViewAdd \/ ViewSorted \/ ViewGrouped \/ ViewLossOnly

ViewSpec == ViewInit /\ [][ViewNext]_vars

(***************************************************************************)
(* Concurrent callers of one store.  Add runs statement by statement       *)
(* between s.mu.Lock() and the deferred s.mu.Unlock(); sum points into     *)
(* summaryData, so every statement updates the shared record in place.     *)
(***************************************************************************)
ConcInit ==
    /\ \E n \in 1..MaxRecent : statsStore = NewPingStatsStore(n)
    /\ clock = 0
    /\ added = << >>
    /\ received = {}
    /\ view = NoView
    /\ Unlocked
    /\ DPingIdle

ConcFrame == UNCHANGED <<received, dpingVars>>

\* the sample and the record of the Add that caller c runs
StatOf(c) == callers[c].stat.Statistic

KeyOf(c) == callers[c].stat.DecIp

Goto(c, pc) == callers' = [callers EXCEPT ![c].pc = pc]

\* a goroutine calls Add(stat)
AddCall(c) ==
    /\ callers[c].pc = "idle"
    /\ \E stat \in StoreSamples :
        callers' = [callers EXCEPT ![c] = [pc |-> "lock", stat |-> stat]]
    /\ UNCHANGED <<statsStore, clock, added, view, mu>>
    /\ ConcFrame

AddLockNoMutex(c) ==
    /\ callers[c].pc = "lock"
    /\ mu' = c
    /\ added' = Append(added, callers[c].stat)
    /\ Goto(c, "recent")
    /\ UNCHANGED <<statsStore, clock, view>>
    /\ ConcFrame

\* s.mu.Lock()
AddLock(c) ==
    /\ callers[c].pc = "lock"
    /\ mu = ""
    /\ mu' = c
    /\ added' = Append(added, callers[c].stat)
    /\ Goto(c, "recent")
    /\ UNCHANGED <<statsStore, clock, view>>
    /\ ConcFrame

\* s.recentStats = append(...), trimmed to maxRecent
AddRecent(c) ==
    /\ callers[c].pc = "recent"
    /\ statsStore' = [statsStore EXCEPT
                        !.recentStats = AppendRecent(@, callers[c].stat,
                                                     statsStore.maxRecent)]
    /\ Goto(c, "lookup")
    /\ UNCHANGED <<clock, added, view, mu>>
    /\ ConcFrame

\* if _, exists := s.summaryData[key]; !exists { s.summaryData[key] = ... }
AddLookup(c) ==
    /\ callers[c].pc = "lookup"
    /\ statsStore' = IF KeyOf(c) \in DOMAIN statsStore.summaryData
                     THEN statsStore
                     ELSE [statsStore EXCEPT
                            !.summaryData = MapPut(@, KeyOf(c),
                                                   NewSummary(callers[c].stat))]
    /\ Goto(c, "totals")
    /\ UNCHANGED <<clock, added, view, mu>>
    /\ ConcFrame

\* sum.TotalSent += ...; sum.TotalRecv += ...; sum.LastUpdated = time.Now()
AddTotals(c) ==
    /\ callers[c].pc = "totals"
    /\ statsStore' = [statsStore EXCEPT
                        !.summaryData[KeyOf(c)] =
                            [MergeTotals(@, StatOf(c)) EXCEPT
                                !.LastUpdated = clock + 1]]
    /\ clock' = clock + 1
    /\ Goto(c, "min")
    /\ UNCHANGED <<added, view, mu>>
    /\ ConcFrame

\* MinRtt and MinRttAvg
AddMin(c) ==
    /\ callers[c].pc = "min"
    /\ statsStore' = [statsStore EXCEPT
                        !.summaryData[KeyOf(c)] =
                            [@ EXCEPT
                                !.MinRtt = MergeMinRtt(@, StatOf(c).MinRtt),
                                !.MinRttAvg =
                                    MergeExtremeAvg(@,
                                        statsStore.summaryData[KeyOf(c)].TotalRecv,
                                        StatOf(c).MinRtt, StatOf(c).PacketsRecv)]]
    /\ Goto(c, "max")
    /\ UNCHANGED <<clock, added, view, mu>>
    /\ ConcFrame

\* MaxRtt and MaxRttAvg
AddMax(c) ==
    /\ callers[c].pc = "max"
    /\ statsStore' = [statsStore EXCEPT
                        !.summaryData[KeyOf(c)] =
                            [@ EXCEPT
                                !.MaxRtt = MergeMaxRtt(@, StatOf(c).MaxRtt),
                                !.MaxRttAvg =
                                    MergeExtremeAvg(@,
                                        statsStore.summaryData[KeyOf(c)].TotalRecv,
                                        StatOf(c).MaxRtt, StatOf(c).PacketsRecv)]]
    /\ Goto(c, "avg")
    /\ UNCHANGED <<clock, added, view, mu>>
    /\ ConcFrame

\* AvgRtt
AddAvg(c) ==
    /\ callers[c].pc = "avg"
    /\ statsStore' = [statsStore EXCEPT
                        !.summaryData[KeyOf(c)].AvgRtt =
                            MergeAvgRtt(@,
                                statsStore.summaryData[KeyOf(c)].TotalRecv,
                                StatOf(c).AvgRtt, StatOf(c).PacketsRecv)]
    /\ Goto(c, "unlock")
    /\ UNCHANGED <<clock, added, view, mu>>
    /\ ConcFrame

\* deferred: s.mu.Unlock()
AddUnlock(c) ==
    /\ callers[c].pc = "unlock"
    /\ mu' = ""
    /\ Goto(c, "done")
    /\ UNCHANGED <<statsStore, clock, added, view>>
    /\ ConcFrame

\* GetSummarySortedGroupedByIsp: s.mu.Lock()
ReadLock ==
    /\ callers[Reader].pc = "idle"
    /\ mu = ""
    /\ mu' = Reader
    /\ Goto(Reader, "read")
    /\ UNCHANGED <<statsStore, clock, added, view>>
    /\ ConcFrame

\* GetSummarySortedGroupedByIsp: the records are copied and sorted
ReadSnapshot ==
    /\ callers[Reader].pc = "read"
    /\ \E des \in BOOLEAN :
        \E rows \in GetSummarySortedGroupedByIsp(statsStore, "loss", des) :
            view' = [op |-> "grouped", field |-> "loss", des |-> des,
                     input |-> << >>, rows |-> rows]
    /\ Goto(Reader, "unlock")
    /\ UNCHANGED <<statsStore, clock, added, mu>>
    /\ ConcFrame

\* GetSummarySortedGroupedByIsp: deferred s.mu.Unlock()
ReadUnlock ==
    /\ callers[Reader].pc = "unlock"
    /\ mu' = ""
    /\ Goto(Reader, "done")
    /\ UNCHANGED <<statsStore, clock, added, view>>
    /\ ConcFrame

AddStep(c) ==
    \/ AddCall(c)
    \/ AddLock(c)
    \/ AddRecent(c)
    \/ AddLookup(c)
    \/ AddTotals(c)
    \/ AddMin(c)
    \/ AddMax(c)
    \/ AddAvg(c)
    \/ AddUnlock(c)

ReadStep == ReadLock \/ ReadSnapshot \/ ReadUnlock

ConcNext == (\E c \in AddCallers : AddStep(c)) \/ ReadStep

ConcSpec == ConcInit /\ [][ConcNext]_vars

(***************************************************************************)
(* Callers that keep what a summary operation returned.  The rows are      *)
(* pointers: each row is paired with the object it points to, which is     *)
(* either a record of the store or an object a summary call allocated.     *)
(***************************************************************************)
CopySamples ==
    {PingStatistic(d[1], "r1", d[2], st) :
        d \in {<<"1.1.1.1", "dx">>, <<"2.2.2.2", "lt">>},
        st \in {StatFull, StatLossy}}

LiveObject(call, key) == [of |-> "store", key |-> key]

\* &SummaryStatistic{...}: an object allocated by the summary call
NewObject(call, key) == [of |-> call, key |-> key]

\* the objects a summary call allocates for the records it lists
Allocated(call, rows) == [i \in DOMAIN rows |-> NewObject(call, rows[i].DestIP)]

\* GetSummary: a map with a copy of every record
GetSummary(s) == s.summaryData

Kept(op, field, des, input, inputObjs, rows, objs) ==
    [op |-> op, field |-> field, des |-> des, input |-> input,
     inputObjs |-> inputObjs, rows |-> rows, objs |-> objs, written |-> FALSE]

\* what the holder of the rows reads when the store is s: a row that points
\* to a record of the store shows that record
Seen(v, s) ==
    IF v.op = "none" THEN v
    ELSE [v EXCEPT
            !.rows = [i \in DOMAIN v.rows |->
                        IF v.objs[i].of = "store"
                        THEN s.summaryData[v.objs[i].key] ELSE v.rows[i]],
            !.input = [i \in DOMAIN v.input |->
                        IF v.inputObjs[i].of = "store"
                        THEN s.summaryData[v.inputObjs[i].key] ELSE v.input[i]]]

\* the assignment the caller makes to a row it was given
Edit(r) == [r EXCEPT !.Region = "edited"]

CopyInit ==
    /\ statsStore = NewPingStatsStore(RecentCap)
    /\ clock = 0
    /\ added = << >>
    /\ received = {}
    /\ view = NoView
    /\ Unlocked
    /\ DPingIdle

CopyFrame == UNCHANGED <<received, mu, callers, dpingVars>>

\* Add, before or after the summary call
CopyAdd ==
    /\ Len(added) < MaxCopyAdds
    /\ \E stat \in CopySamples :
        /\ statsStore' = Add(statsStore, stat, clock + 1)
        /\ added' = Append(added, stat)
        /\ view' = Seen(view, Add(statsStore, stat, clock + 1))
    /\ clock' = clock + 1
    /\ CopyFrame

CopyGetSummary ==
    /\ view = NoView
    /\ LET rows == GetSummary(statsStore)
       IN  view' = Kept("summary", "", FALSE, << >>, << >>, rows,
                        Allocated("summary", rows))
    /\ UNCHANGED <<statsStore, clock, added>>
    /\ CopyFrame

CopyGetSummarySorted ==
    /\ view = NoView
    /\ \E field \in {"loss", "avgrtt"}, des \in BOOLEAN :
        \E rows \in GetSummarySorted(statsStore, field, des) :
            view' = Kept("sorted", field, des, << >>, << >>, rows,
                         Allocated("sorted", rows))
    /\ UNCHANGED <<statsStore, clock, added>>
    /\ CopyFrame

CopyGetGrouped ==
    /\ view = NoView
    /\ \E field \in {"loss", "rtt"}, des \in BOOLEAN :
        \E rows \in GetSummarySortedGroupedByIsp(statsStore, field, des) :
            view' = Kept("grouped", field, des, << >>, << >>, rows,
                         Allocated("grouped", rows))
    /\ UNCHANGED <<statsStore, clock, added>>
    /\ CopyFrame

\* GetLossOnlyGroupedByIspSorted appends the pointers of its argument: its
\* rows are the objects of the grouped summary it was given
CopyGetLossOnly ==
    /\ view = NoView
    /\ \E field \in {"loss", "rtt"}, des \in BOOLEAN :
        \E sum \in GetSummarySortedGroupedByIsp(statsStore, field, des) :
            LET rows == GetLossOnlyGroupedByIspSorted(sum, field, des)
            IN  view' = Kept("lossOnly", field, des, sum,
                             Allocated("grouped", sum), rows,
                             Allocated("grouped", rows))
    /\ UNCHANGED <<statsStore, clock, added>>
    /\ CopyFrame

\* the caller assigns to a field of a row it was given: every holder of the
\* object sees the assignment
CopyWrite ==
    /\ view.op # "none"
    /\ ~view.written
    /\ \E i \in DOMAIN view.rows :
        LET o == view.objs[i]
        IN  /\ view' = [view EXCEPT
                    !.written = TRUE,
                    !.rows = [j \in DOMAIN view.rows |->
                                IF view.objs[j] = o THEN Edit(view.rows[j])
                                ELSE view.rows[j]],
                    !.input = [j \in DOMAIN view.input |->
                                IF view.inputObjs[j] = o THEN Edit(view.input[j])
                                ELSE view.input[j]]]
            /\ statsStore' = IF o.of = "store"
                             THEN [statsStore EXCEPT !.summaryData[o.key] = Edit(@)]
                             ELSE statsStore
    /\ UNCHANGED <<clock, added>>
    /\ CopyFrame

CopyNext ==
    \/ CopyAdd
    \/ CopyGetSummary
    \/ CopyGetSummarySorted
    \/ CopyGetGrouped
    \/ CopyGetLossOnly
    \/ CopyWrite

CopySpec == CopyInit /\ [][CopyNext]_vars

(***************************************************************************)
(* Properties of the store                                                 *)
(***************************************************************************)
\* the samples added for destination k, in call order
SamplesFor(k) == SelectSeq(added, LAMBDA x : x.DecIp = k)

RECURSIVE SumSent(_)
SumSent(samples) ==
    IF samples = << >> THEN 0
    ELSE Head(samples).Statistic.PacketsSent + SumSent(Tail(samples))

RECURSIVE SumRecv(_)
SumRecv(samples) ==
    IF samples = << >> THEN 0
    ELSE Head(samples).Statistic.PacketsRecv + SumRecv(Tail(samples))

\* sum of AvgRtt * PacketsRecv over the samples
RECURSIVE SumWeightedAvg(_)
SumWeightedAvg(samples) ==
    IF samples = << >> THEN 0
    ELSE Head(samples).Statistic.AvgRtt * Head(samples).Statistic.PacketsRecv
            + SumWeightedAvg(Tail(samples))

PositiveMins(samples) ==
    {samples[i].Statistic.MinRtt : i \in 1..Len(samples)} \ {0}

Maxes(samples) == {samples[i].Statistic.MaxRtt : i \in 1..Len(samples)}

Records == DOMAIN statsStore.summaryData

Record(k) == statsStore.summaryData[k]

\* C8: after every Add, every record has TotalRecv <= TotalSent, the
\* samples added all having PacketsRecv <= PacketsSent.
C8_RecvAtMostSent ==
    (\A i \in 1..Len(added) :
        added[i].Statistic.PacketsRecv <= added[i].Statistic.PacketsSent)
    => \A k \in Records : Record(k).TotalRecv <= Record(k).TotalSent

\* a record merged from three samples that lost packets
C8_Witness ==
    \E k \in Records :
        /\ Len(SamplesFor(k)) = 3
        /\ Record(k).TotalRecv < Record(k).TotalSent
        /\ Record(k).TotalRecv > 0

\* C9: for a destination whose samples all have PacketsRecv >= 1, AvgRtt is
\* the mean of the samples' AvgRtt weighted by PacketsRecv, rounded down by
\* less than one unit per Add call.
C9_AvgIsWeightedMean ==
    \A k \in Records :
        LET samples == SamplesFor(k)
        IN  (\A i \in 1..Len(samples) : samples[i].Statistic.PacketsRecv >= 1)
            => /\ Record(k).AvgRtt * SumRecv(samples) <= SumWeightedAvg(samples)
               /\ SumWeightedAvg(samples)
                    < (Record(k).AvgRtt + Len(samples)) * SumRecv(samples)

\* three samples with different weights whose mean is not a whole number
C9_Witness ==
    \E k \in Records :
        LET samples == SamplesFor(k)
        IN  /\ Len(samples) = 3
            /\ \A i \in 1..3 : samples[i].Statistic.PacketsRecv >= 1
            /\ {samples[i].Statistic.PacketsRecv : i \in 1..3} = {1, 2, 3}
            /\ Record(k).AvgRtt * SumRecv(samples) < SumWeightedAvg(samples)

\* C10: a record's TotalSent and TotalRecv are the sums over the samples of
\* its destination, MinRtt is the smallest sample MinRtt that is > 0 and
\* MaxRtt the largest sample MaxRtt; Add(3, 3, 10, 30, 20) followed by
\* Add(3, 2, 8, 25, 15) for one destination gives 6, 5, 8, 30 and AvgRtt 18.
C10_TotalsAndExtremes ==
    /\ \A k \in Records :
        LET samples == SamplesFor(k)
        IN  /\ Record(k).TotalSent = SumSent(samples)
            /\ Record(k).TotalRecv = SumRecv(samples)
            /\ PositiveMins(samples) # {} =>
                /\ Record(k).MinRtt \in PositiveMins(samples)
                /\ \A m \in PositiveMins(samples) : Record(k).MinRtt <= m
            /\ Record(k).MaxRtt \in Maxes(samples)
            /\ \A m \in Maxes(samples) : Record(k).MaxRtt >= m
    /\ \A k \in Records :
        (/\ Len(SamplesFor(k)) = 2
         /\ SamplesFor(k)[1].Statistic = StatFull
         /\ SamplesFor(k)[2].Statistic = StatLossy)
        => /\ Record(k).TotalSent = 6
           /\ Record(k).TotalRecv = 5
           /\ Record(k).MinRtt = 8
           /\ Record(k).MaxRtt = 30
           /\ Record(k).AvgRtt = 18

\* the two Add calls of the scenario, made for one destination
C10_Witness ==
    /\ Len(added) = 2
    /\ added[1].DecIp = "1.1.1.1"
    /\ added[2].DecIp = "1.1.1.1"
    /\ added[1].Statistic = StatFull
    /\ added[2].Statistic = StatLossy
    /\ Record("1.1.1.1").AvgRtt = 18

\* a sample with MinRtt = 0 was merged after one with a positive MinRtt
C10_WitnessZeroMin ==
    \E k \in Records :
        /\ Len(SamplesFor(k)) = 2
        /\ SamplesFor(k)[2].Statistic.MinRtt = 0
        /\ Record(k).MinRtt = 8

\* the mean m of weight W after a value v of weight w
IncrementalMean(m, W, v, w) ==
    IF W = 0 THEN v ELSE (m * W + v * w) \div (W + w)

\* the RTT fields a record has before its first sample
Unsampled ==
    [TotalRecv |-> 0, AvgRtt |-> 0, MinRttAvg |-> 0, MaxRttAvg |-> 0,
     MinRtt |-> Hour, MaxRtt |-> 0]

\* the record of destination k before a step, Unsampled when there is none
Before(k) == IF k \in Records THEN Record(k) ELSE Unsampled

C20_ExtremesAreMonotone ==
    [][added' # added =>
        LET stat == added'[Len(added')]
            st == stat.Statistic
            old == Before(stat.DecIp)
            new == statsStore'.summaryData[stat.DecIp]
        IN  /\ new.MinRtt <= old.MinRtt
            /\ new.MaxRtt >= old.MaxRtt
            /\ st.MinRtt = 0 => new.MinRtt = old.MinRtt
            /\ stat.DecIp \notin Records =>
                /\ new.MinRtt = (IF st.MinRtt = 0 THEN Hour ELSE st.MinRtt)
                /\ new.MaxRtt = st.MaxRtt
            /\ \A k \in Records \ {stat.DecIp} :
                /\ statsStore'.summaryData[k].MinRtt = Record(k).MinRtt
                /\ statsStore'.summaryData[k].MaxRtt = Record(k).MaxRtt]_vars

\* a record created by a sample without replies, still at the sentinel, and
\* then lowered and raised by two samples with replies
C20_Witness ==
    \E k \in Records :
        /\ Len(SamplesFor(k)) = 3
        /\ SamplesFor(k)[1].Statistic = StatDead
        /\ SamplesFor(k)[2].Statistic = StatFull
        /\ SamplesFor(k)[3].Statistic = StatLossy
        /\ Record(k).MinRtt = 8
        /\ Record(k).MaxRtt = 30

\* C21: the aggregate map has one record for exactly the destinations that
\* were passed to Add, each under its address as key and with DestIP equal
\* to the key, and no step removes a key.
C21_OneRecordPerDestination ==
    /\ [](/\ Records = {added[i].DecIp : i \in 1..Len(added)}
          /\ \A k \in Records : Record(k).DestIP = k)
    /\ [][Records \subseteq DOMAIN statsStore'.summaryData]_vars

\* three Adds for two destinations
C21_Witness ==
    /\ Len(added) = 3
    /\ Cardinality(Records) = 2

\* C22: a record's Region and Isp are those of the first sample of its
\* destination, whatever region and ISP the later samples carry.
C22_RegionAndIspFromCreation ==
    \A k \in Records :
        /\ Record(k).Region = SamplesFor(k)[1].Region
        /\ Record(k).Isp = SamplesFor(k)[1].Isp

\* a second sample of the destination carried another region and ISP
C22_Witness ==
    \E k \in Records :
        /\ Len(SamplesFor(k)) = 2
        /\ SamplesFor(k)[2].Region # SamplesFor(k)[1].Region
        /\ SamplesFor(k)[2].Isp # SamplesFor(k)[1].Isp
        /\ Record(k).Isp = SamplesFor(k)[1].Isp

\* the store with its recent records emptied
WithoutRecent == [statsStore EXCEPT !.recentStats = << >>]

\* C23: after n Adds the recent records are the last min(n, maxRecent)
\* samples added, oldest first, never more than maxRecent, and the summary
\* views do not depend on them.
C23_RecentIsLastAdded ==
    LET n == Len(added)
        m == IF n < statsStore.maxRecent THEN n ELSE statsStore.maxRecent
    IN  /\ statsStore.recentStats = SubSeq(added, n - m + 1, n)
        /\ Len(statsStore.recentStats) <= statsStore.maxRecent
        /\ \A field \in {"loss", "avgrtt", "rtt", "sent"}, des \in BOOLEAN :
            /\ GetSummarySorted(statsStore, field, des)
                = GetSummarySorted(WithoutRecent, field, des)
            /\ GetSummarySortedGroupedByIsp(statsStore, field, des)
                = GetSummarySortedGroupedByIsp(WithoutRecent, field, des)

\* the oldest of three samples was evicted from a store of capacity 2
C23_Witness ==
    /\ Len(added) = 3
    /\ statsStore.maxRecent = 2
    /\ added[1] # added[2]
    /\ statsStore.recentStats = <<added[2], added[3]>>

\* C28: a record's PacketLoss and PacketsRecvDuplicates are those of the
\* first sample of its destination: later Adds change TotalSent and
\* TotalRecv and leave the two fields as they were.
C28_LossAndDuplicatesFromCreation ==
    \A k \in Records :
        /\ Record(k).PacketLoss = SamplesFor(k)[1].Statistic.PacketLoss
        /\ Record(k).PacketsRecvDuplicates
                = SamplesFor(k)[1].Statistic.PacketsRecvDuplicates

\* the record still shows no loss and no duplicate after a sample that lost
\* a packet and received a duplicate
C28_Witness ==
    \E k \in Records :
        /\ Len(SamplesFor(k)) = 2
        /\ SamplesFor(k)[1].Statistic = StatFull
        /\ SamplesFor(k)[2].Statistic = StatLossy
        /\ Record(k).PacketLoss = 0
        /\ Record(k).PacketsRecvDuplicates = 0
        /\ Record(k).TotalRecv < Record(k).TotalSent

(***************************************************************************)
(* Properties of the store under concurrent callers                        *)
(***************************************************************************)
\* the store after the Adds of samples, one whole Add after the other, the
\* first of them at time t + 1
RECURSIVE Sequential(_, _, _)
Sequential(s, samples, t) ==
    IF samples = << >> THEN s
    ELSE Sequential(Add(s, Head(samples), t + 1), Tail(samples), t + 1)

SequentialStore(samples) ==
    Sequential(NewPingStatsStore(statsStore.maxRecent), samples, 0)

\* C18: Add is atomic with respect to the other store operations: whenever
\* no Add is under way, the store is the one that the Adds made so far give
\* when applied one at a time, in the order in which they took the lock,
\* and a summary read returns the records of the store as it was after some
\* number of whole Adds.
C18_AddsAreSerialized ==
    /\ (\A c \in AddCallers : callers[c].pc \in {"idle", "lock", "done"})
        => statsStore = SequentialStore(added)
    /\ view.op = "grouped" =>
        \E n \in 0..Len(added) :
            view.rows \in GetSummarySortedGroupedByIsp(
                            SequentialStore(SubSeq(added, 1, n)),
                            view.field, view.des)

\* two concurrent Adds for one destination are over, and the summary was
\* read between them
C18_Witness ==
    /\ \A c \in AddCallers : callers[c].pc = "done"
    /\ added[1].DecIp = added[2].DecIp
    /\ added[1].Statistic = StatFull
    /\ added[2].Statistic = StatLossy
    /\ view.op = "grouped"
    /\ Len(view.rows) = 1
    /\ view.rows[1].TotalRecv = 3
    /\ Record(added[1].DecIp).TotalRecv = 5

(***************************************************************************)
(* Properties of DPing: selectors, slots, posting                          *)
(***************************************************************************)
\* the catalog lists the region for the ISP, or for some ISP when isp is all
RegionInCatalog(isp, region) ==
    \E n \in DOMAIN DnsBuffer :
        (isp = "all" \/ n = isp) /\ region \in DOMAIN DnsBuffer[n]

\* the addresses the catalog lists for the selectors
TargetAddrs(isp, region) ==
    UNION {UNION {{DnsBuffer[n][r][i] : i \in 1..Len(DnsBuffer[n][r])} :
                  r \in {x \in DOMAIN DnsBuffer[n] :
                            region = Nationwide \/ x = region}} :
           n \in {x \in DOMAIN DnsBuffer : isp = "all" \/ x = isp}}

Pending == {todo[i].ip : i \in 1..Len(todo)}

\* C15: an ISP selector outside the four known values is replaced by all, a
\* region selector that is neither the all-regions sentinel nor a region of
\* the catalog for the resulting ISP is replaced by the sentinel, and the
\* run goes on: the aggregator is started, the targets of the replaced
\* selectors are dispatched, and a run that returns has printed its summary.
C15_SelectorFallback ==
    mainpc \notin {"start", "validate"} =>
        LET badIsp == args.isp \notin {"dx", "lt", "yd", "all"}
            badRegion == /\ args.detection # Nationwide
                         /\ ~RegionInCatalog(ispVal, args.detection)
        IN  /\ badIsp => ispVal = "all"
            /\ badRegion => regionVal = Nationwide
            /\ (badIsp \/ badRegion) =>
                /\ aggpc # "idle"
                /\ Pending \cup Spawned = TargetAddrs(ispVal, regionVal)
                /\ mainpc = "returned" => summaries = 1

\* both selectors unknown: the run covers the whole catalog and returns
C15_Witness ==
    /\ mainpc = "returned"
    /\ args.isp = "bogus"
    /\ args.detection = "nowhere"
    /\ ispVal = "all"
    /\ regionVal = Nationwide
    /\ Spawned = CatalogAddrs
    /\ summaries = 1

\* C16: a task holds a slot from before Ping is invoked until its deferred
\* release, which runs on every exit path of Ping and before wg.Done(); when
\* the stream is closed every slot is free.
C16_SlotHeldAroundPing ==
    /\ sem = Cardinality(InFlight)
    /\ wg = Cardinality({a \in Spawned : ~Finished(a)})
    /\ \A a \in CatalogAddrs :
        /\ tasks[a].pc \in {"idle", "blocked", "ping"} => tasks[a].outcome = "none"
        /\ tasks[a].pc \in {"post", "release", "wgdone", "done"}
              => tasks[a].outcome # "none"
    /\ closes > 0 => sem = 0

\* the stream is closed with every slot free after tasks that returned
\* normally, with an error and with a caught fault, one at a time
C16_Witness ==
    /\ closes = 1
    /\ sem = 0
    /\ args.maxConcurrency = 1
    /\ \E a \in CatalogAddrs : tasks[a].outcome = "ok"
    /\ \E a \in CatalogAddrs : tasks[a].outcome = "err"
    /\ \E a \in CatalogAddrs : tasks[a].outcome = "fault"

\* C17: a task that has its statistics is never blocked posting them: the
\* send on the buffered stream can always complete.
C17_PostNeverBlocks ==
    \A a \in CatalogAddrs :
        tasks[a].pc = "post" => Len(ChStatistics) < ChCap

\* C17, as the code has it: a task that has its statistics posts them at
\* once while the buffer of the stream has room; it is blocked only while
\* the buffer is full, and then the aggregator is able to receive.
C17_PostBlocksOnlyOnFullBuffer ==
    \A a \in CatalogAddrs :
        tasks[a].pc = "post" =>
            \/ Len(ChStatistics) < ChCap /\ ENABLED Post(a)
            \/ Len(ChStatistics) = ChCap /\ ENABLED Receive

\* a task waits to post while the buffer is full
C17_Witness ==
    \E a \in CatalogAddrs :
        /\ tasks[a].pc = "post"
        /\ Len(ChStatistics) = ChCap
        /\ aggpc = "recv"

\* the catalog lists the address for the ISP and the region
InCatalog(isp, region, ip) ==
    /\ isp \in DOMAIN DnsBuffer
    /\ region \in DOMAIN DnsBuffer[isp]
    /\ \E i \in 1..Len(DnsBuffer[isp][region]) : DnsBuffer[isp][region][i] = ip

\* C26: for valid selectors DPing launches one probe task for exactly the
\* catalog addresses the selectors choose (every region of the selected
\* ISPs for the all-regions sentinel, the one region otherwise, an ISP
\* without the region giving none), each with the ISP and region of its
\* catalog entry; the tasks are a function of the catalog and the selectors.
C26_OneTaskPerSelectedAddress ==
    (/\ mainpc \notin {"start", "validate"}
     /\ args.isp \in {"dx", "lt", "yd", "all"}
     /\ args.detection = Nationwide \/ RegionInCatalog(args.isp, args.detection))
    => LET chosen == TargetAddrs(args.isp, args.detection)
       IN  /\ Pending \cup Spawned = chosen
           /\ Pending \cap Spawned = {}
           /\ Len(todo) = Cardinality(Pending)
           /\ mainpc # "dispatch" => Spawned = chosen
           /\ \A a \in Spawned : InCatalog(tasks[a].Isp, tasks[a].Region, a)
           /\ \A i \in 1..Len(todo) :
                InCatalog(todo[i].isp, todo[i].region, todo[i].ip)
           /\ \A a \in Spawned :
                /\ args.isp # "all" => tasks[a].Isp = args.isp
                /\ args.detection # Nationwide => tasks[a].Region = args.detection

\* region r1 of every ISP: two addresses of dx, one of lt, and yd, which
\* has no region r1, gives none
C26_Witness ==
    /\ mainpc = "returned"
    /\ args.isp = "all"
    /\ args.detection = "r1"
    /\ Spawned = {"10.0.0.1", "10.0.0.2", "10.0.0.3"}
    /\ tasks["10.0.0.2"].Isp = "dx"
    /\ tasks["10.0.0.3"].Isp = "lt"

\* C27: the aggregator's progress count is the number of results received
\* from the stream, those with 100% loss included; every receive adds
\* exactly one to it, and once the stream is closed and drained it is the
\* number of probe tasks that succeeded.
C27_ProgressCountsEveryResult ==
    /\ [](processedCount = Cardinality(received))
    /\ [][received' # received => processedCount' = processedCount + 1]_vars
    /\ []((closes > 0 /\ ChStatistics = << >>)
            => processedCount = Cardinality(Succeeded))

\* the stream is closed after two results, one of them with 100% loss
C27_Witness ==
    /\ closes = 1
    /\ ChStatistics = << >>
    /\ processedCount = 2
    /\ Cardinality(Contributed) = 1
    /\ \E r \in received : r.Statistic.PacketLoss = FullLoss

(***************************************************************************)
(* Properties of the summary operations                                    *)
(***************************************************************************)
\* positions of list that hold the row r
Positions(list, r) == {i \in 1..Len(list) : list[i] = r}

Lossy(list) == {i \in 1..Len(list) : list[i].PacketLoss > 0}

\* C11: GetLossOnlyGroupedByIspSorted returns exactly the records of its
\* input whose PacketLoss is > 0: each of them once, and no record whose
\* PacketLoss is 0.
C11_LossOnlyIsTheLossyRows ==
    view.op = "lossOnly" =>
        /\ \A i \in Lossy(view.input) :
            Cardinality(Positions(view.rows, view.input[i])) = 1
        /\ \A j \in 1..Len(view.rows) :
            /\ view.rows[j].PacketLoss > 0
            /\ Positions(view.input, view.rows[j]) # {}
        /\ Len(view.rows) = Cardinality(Lossy(view.input))

\* of two input records one has no loss and is left out
C11_Witness ==
    /\ view.op = "lossOnly"
    /\ Len(view.input) = 2
    /\ Len(view.rows) = 1
    /\ \E i \in 1..2 : view.input[i].PacketLoss = 0

\* C12: GetLossOnlyGroupedByIspSorted keeps the relative order of its input:
\* of two records of the output, the one that comes first in the output
\* comes first in the input.
C12_LossOnlyKeepsInputOrder ==
    view.op = "lossOnly" =>
        \A i, j \in 1..Len(view.rows) :
            i < j =>
                \A p \in Positions(view.input, view.rows[i]),
                   q \in Positions(view.input, view.rows[j]) : p < q

SortKey(field, r) ==
    CASE field = "minrtt" -> r.MinRtt
      [] field = "maxrtt" -> r.MaxRtt
      [] field = "avgrtt" -> r.AvgRtt
      [] OTHER -> r.PacketLoss

\* list is ordered by the field, ascending or descending
Ordered(list, field, descending) ==
    \A i, j \in 1..Len(list) :
        i < j => IF descending
                 THEN SortKey(field, list[i]) >= SortKey(field, list[j])
                 ELSE SortKey(field, list[i]) <= SortKey(field, list[j])

\* the rows of list that belong to the ISP, in the order of list
IspGroup(list, isp) == SelectSeq(list, LAMBDA r : r.Isp = isp)

\* C13: when DPing is given the sort field minrtt, maxrtt or avgrtt, the
\* rows of each ISP group of the final summary are ordered by MinRtt, MaxRtt
\* or AvgRtt, in the configured direction.
C13_SummaryOrderedByCliField ==
    (summaries = 1 /\ output.sort \in {"minrtt", "maxrtt", "avgrtt"}) =>
        \A isp \in {"dx", "lt", "yd"} :
            Ordered(IspGroup(output.summary, isp), output.sort, output.des)

\* C14: for a field of loss, minrtt, maxrtt, avgrtt, GetSummarySorted
\* returns a permutation of the store's records that is non-decreasing in
\* the field when ascending and non-increasing when descending, so that the
\* two directions list the field's values in reverse of each other.
C14_SortedDirections ==
    (view.op = "sorted" /\ view.field \in {"loss", "minrtt", "maxrtt", "avgrtt"}) =>
        LET data == statsStore.summaryData
            n == Len(view.rows)
        IN  /\ n = Cardinality(DOMAIN data)
            /\ {view.rows[i] : i \in 1..n} = {data[k] : k \in DOMAIN data}
            /\ Ordered(view.rows, view.field, view.des)
            /\ \A other \in GetSummarySorted(statsStore, view.field, ~view.des) :
                /\ Len(other) = n
                /\ \A i \in 1..n :
                    SortKey(view.field, other[i])
                        = SortKey(view.field, view.rows[n + 1 - i])

\* two records listed by descending AvgRtt
C14_Witness ==
    /\ view.op = "sorted"
    /\ view.field = "avgrtt"
    /\ view.des
    /\ Len(view.rows) = 2
    /\ view.rows[1].AvgRtt > view.rows[2].AvgRtt

GroupKey(field, r) ==
    CASE field = "rtt" -> r.AvgRtt
      [] field = "sent" -> r.TotalSent
      [] field = "recv" -> r.TotalRecv
      [] OTHER -> r.PacketLoss

\* C24: GetSummarySortedGroupedByIsp returns one row per record of the
\* store, the rows of one ISP next to each other, and the rows of each ISP
\* ordered by the field (loss, rtt, sent or recv; loss for any other field),
\* ascending, or descending when descending is set.
C24_GroupedByIspThenSorted ==
    view.op = "grouped" =>
        LET data == statsStore.summaryData
            rows == view.rows
            n == Len(rows)
        IN  /\ n = Cardinality(DOMAIN data)
            /\ {rows[i] : i \in 1..n} = {data[k] : k \in DOMAIN data}
            /\ \A i, j, k \in 1..n :
                (i < j /\ j < k /\ rows[i].Isp = rows[k].Isp)
                    => rows[j].Isp = rows[i].Isp
            /\ \A i, j \in 1..n :
                (i < j /\ rows[i].Isp = rows[j].Isp) =>
                    IF view.des
                    THEN GroupKey(view.field, rows[i]) >= GroupKey(view.field, rows[j])
                    ELSE GroupKey(view.field, rows[i]) <= GroupKey(view.field, rows[j])

\* two rows of dx by descending TotalSent, followed by a row of lt that a
\* sort of the whole list would have put before the second
C24_Witness ==
    /\ view.op = "grouped"
    /\ view.field = "sent"
    /\ view.des
    /\ Len(view.rows) = 3
    /\ view.rows[1].Isp = "dx"
    /\ view.rows[2].Isp = "dx"
    /\ view.rows[1].TotalSent > view.rows[2].TotalSent
    /\ view.rows[3].TotalSent > view.rows[2].TotalSent

=============================================================================
